---- MODULE Spec2Model ----
(***************************************************************************)
(* A model of the CryptoZombies client: the ZombieFactory gateway          *)
(* (createRandomZombie, getZombie, watchNewZombieEvents) and the           *)
(* DNA-to-trait function generateZombie of app/src/zombieFactory.ts.       *)
(*                                                                         *)
(* TLC integers are 32 bits wide, so a bigint below 10^16 is kept as two   *)
(* base-10^8 limbs [hi, lo], strings of decimal digits are sequences over  *)
(* 0..9, and an IEEE-754 double is kept as its 53 significand bits and the *)
(* exponent of the last bit.                                               *)
(***************************************************************************)
EXTENDS Integers, Sequences, FiniteSets, TLC

VARIABLES
    tIn,        \* the arguments (id, name, dna) of the generateZombie call
    tOut,       \* the ZombieDetails it returned, or NoDetails before the call
    wallet,     \* the account the wallet provider has selected
    calls,      \* the createRandomZombie invocations, in call order
    reads,      \* the getZombie invocations, in call order
    pending,    \* the transactions broadcast and not yet included in a block
    zombies,    \* the contract's storage: the zombies array
    logs,       \* the NewZombie logs the contract emitted, in block order,
                \* each with the hash of its transaction
    subs,       \* the subscriptions made by watchNewZombieEvents
    app,        \* the ZombieApp of examples/advanced-patterns.ts
    dash,       \* the dashboard of createZombieDashboard
    test        \* the run of testEventListening

traitVars == <<tIn, tOut>>
gatewayVars == <<wallet, calls, reads, pending, zombies, logs, subs>>
appVars == <<app, dash, test>>
vars == <<tIn, tOut, wallet, calls, reads, pending, zombies, logs, subs,
          app, dash, test>>

(***************************************************************************)
(* bigint, string and number primitives used by generateZombie             *)
(***************************************************************************)

\* The bigint h * 10^8 + l.
BigInt(h, l) == [hi |-> h, lo |-> l]

\* Number.prototype.toString / BigInt.prototype.toString of one limb: the
\* decimal digits, most significant first, no leading zero.
RECURSIVE DigitsOfNat(_)
DigitsOfNat(n) ==
    IF n < 10 THEN <<n>> ELSE Append(DigitsOfNat(n \div 10), n % 10)

\* String.prototype.padStart(targetLength, padString) with a one-character pad.
PadStart(s, targetLength, padDigit) ==
    IF Len(s) >= targetLength THEN s
    ELSE [i \in 1..(targetLength - Len(s)) |-> padDigit] \o s

\* dna.toString(): the high limb without leading zeros, then the low limb
\* on all of its eight digits; the low limb alone when the high limb is 0.
BigIntToString(b) ==
    IF b.hi = 0 THEN DigitsOfNat(b.lo)
    ELSE DigitsOfNat(b.hi) \o PadStart(DigitsOfNat(b.lo), 8, 0)

Min(a, b) == IF a < b THEN a ELSE b

\* wrong: the slice starts one character late
SubstringShifted(s, start, end) ==
    SubSeq(s, Min(start, Len(s)) + 2, Min(end, Len(s)) + 1)

\* String.prototype.substring(start, end): 0-indexed, end-exclusive, both
\* clamped to the length (start <= end at every call site).
Substring(s, start, end) ==
    SubSeq(s, Min(start, Len(s)) + 1, Min(end, Len(s)))

\* parseInt of a string of decimal digits (radix 10).
RECURSIVE ParseInt(_)
ParseInt(s) ==
    IF Len(s) = 0 THEN 0
    ELSE 10 * ParseInt(SubSeq(s, 1, Len(s) - 1)) + s[Len(s)]

(***************************************************************************)
(* IEEE-754 binary64 arithmetic, round to nearest, ties to even.           *)
(* A nonzero double is [m |-> its 53 significand bits, e |-> the exponent  *)
(* of the last bit], of value m * 2^e.  The significand is five limbs,     *)
(* most significant first: the leading 1, then four limbs of 13 fraction   *)
(* bits each.  Zero is FZero.                                              *)
(***************************************************************************)

FZero == [m |-> <<>>, e |-> 0]

\* The base of a significand limb.
FBase == 2^13

RECURSIVE IncLimbs(_)
\* m + 1, for a significand whose fraction limbs are not all FBase - 1
IncLimbs(m) ==
    LET n == Len(m) IN
    IF m[n] < FBase - 1 THEN [m EXCEPT ![n] = m[n] + 1]
    ELSE Append(IncLimbs(SubSeq(m, 1, n - 1)), 0)

\* Round the significand m whose discarded part starts with the bit rbit
\* and has a nonzero rest exactly when sticky: to nearest, ties to even.
RoundNearestEven(m, rbit, sticky, e) ==
    IF rbit = 1 /\ (sticky \/ m[Len(m)] % 2 = 1)
    THEN IF \A i \in 2..Len(m) : m[i] = FBase - 1
         THEN [m |-> [i \in 1..Len(m) |-> IF i = 1 THEN 1 ELSE 0], e |-> e + 1]
         ELSE [m |-> IncLimbs(m), e |-> e]
    ELSE [m |-> m, e |-> e]

RECURSIVE NormShift(_, _, _)
\* the least s >= from with a * 2^s >= b
NormShift(a, b, from) ==
    IF a * 2^from >= b THEN from ELSE NormShift(a, b, from + 1)

RECURSIVE DivLimbs(_, _, _)
\* Long division: n more quotient limbs of r / b, and the last remainder.
DivLimbs(r, b, n) ==
    IF n = 0 THEN [limbs |-> <<>>, rem |-> r]
    ELSE LET rest == DivLimbs((r * FBase) % b, b, n - 1)
         IN [limbs |-> <<(r * FBase) \div b>> \o rest.limbs, rem |-> rest.rem]

\* a / b in doubles, for integers 0 <= a < b < 2^17.
FDiv(a, b) ==
    IF a = 0 THEN FZero
    ELSE LET s    == NormShift(a, b, 0)
             q    == DivLimbs(a * 2^s - b, b, 4)
             rbit == IF 2 * q.rem >= b THEN 1 ELSE 0
         IN RoundNearestEven(<<1>> \o q.limbs, rbit,
                             2 * q.rem - rbit * b > 0, 0 - (s + 52))

RECURSIVE MulLimbs(_, _, _)
\* [limbs |-> the limbs of (limbs * c + carry) mod FBase^Len(limbs),
\*  carry |-> what overflows them]
MulLimbs(limbs, c, carry) ==
    IF Len(limbs) = 0 THEN [limbs |-> <<>>, carry |-> carry]
    ELSE LET t    == carry + limbs[Len(limbs)] * c
             rest == MulLimbs(SubSeq(limbs, 1, Len(limbs) - 1), c, t \div FBase)
         IN [limbs |-> Append(rest.limbs, t % FBase), carry |-> rest.carry]

RECURSIVE BitLen(_)
BitLen(n) == IF n = 0 THEN 0 ELSE 1 + BitLen(n \div 2)

\* x * c in doubles, for a double x and an integer 1 <= c < 2^17.
FMul(x, c) ==
    IF x = FZero THEN FZero
    ELSE LET p    == MulLimbs(Tail(x.m), c, 0)
             top  == x.m[1] * c + p.carry
             d    == BitLen(top) - 1
             all  == <<top>> \o p.limbs
             last == all[Len(all)]
         IN IF d = 0 THEN [m |-> all, e |-> x.e]
            ELSE RoundNearestEven(
                   [i \in 1..Len(all) |->
                      IF i = 1 THEN 1
                      ELSE (all[i - 1] % 2^d) * (FBase \div 2^d) + all[i] \div 2^d],
                   (last \div 2^(d - 1)) % 2,
                   last % 2^(d - 1) > 0,
                   x.e + d)

RECURSIVE LimbsToNat(_)
LimbsToNat(limbs) ==
    IF Len(limbs) = 0 THEN 0
    ELSE FBase * LimbsToNat(SubSeq(limbs, 1, Len(limbs) - 1)) + limbs[Len(limbs)]

\* Math.floor of a non-negative double below 2^17.
MathFloor(x) ==
    IF x = FZero \/ 0 - x.e > 52 THEN 0
    ELSE LET k == 0 - x.e
         IN LimbsToNat(SubSeq(x.m, 1, Len(x.m) - (k \div 13))) \div 2^(k % 13)

(***************************************************************************)
(* generateZombie                                                          *)
(***************************************************************************)

NoDetails == [none |-> TRUE]

\* wrong: the 0-based remainder, without the + 1
ChoiceZeroBased(digits, variations) == ParseInt(digits) % variations

\* (parseInt(digits) % variations) + 1
Choice(digits, variations) == (ParseInt(digits) % variations) + 1

\* Math.floor((parseInt(digits) / 100) * 360)
Hue(digits) == MathFloor(FMul(FDiv(ParseInt(digits), 100), 360))

\* wrong: the decimal string is not padded
DnaStrNoPad(dna) == BigIntToString(dna)

\* const dnaStr = dna.toString().padStart(16, '0')
DnaStr(dna) == PadStart(BigIntToString(dna), 16, 0)

\* wrong: the eyes are drawn from the id as well as from the dna
generateZombieSeededById(id, name, dna) ==
    LET dnaStr == DnaStr(dna) IN
    [ headChoice         |-> Choice(Substring(dnaStr, 0, 2), 7),
      eyeChoice          |-> ((ParseInt(Substring(dnaStr, 2, 4)) + id) % 11) + 1,
      shirtChoice        |-> Choice(Substring(dnaStr, 4, 6), 6),
      skinColorChoice    |-> Hue(Substring(dnaStr, 6, 8)),
      eyeColorChoice     |-> Hue(Substring(dnaStr, 8, 10)),
      clothesColorChoice |-> Hue(Substring(dnaStr, 10, 12)),
      zombieName         |-> name,
      zombieDescription  |-> "A Level 1 CryptoZombie" ]

\* wrong: the clothes colour is drawn from the digits [12, 14)
generateZombieUsesTail(id, name, dna) ==
    LET dnaStr == DnaStr(dna) IN
    [ headChoice         |-> Choice(Substring(dnaStr, 0, 2), 7),
      eyeChoice          |-> Choice(Substring(dnaStr, 2, 4), 11),
      shirtChoice        |-> Choice(Substring(dnaStr, 4, 6), 6),
      skinColorChoice    |-> Hue(Substring(dnaStr, 6, 8)),
      eyeColorChoice     |-> Hue(Substring(dnaStr, 8, 10)),
      clothesColorChoice |-> Hue(Substring(dnaStr, 12, 14)),
      zombieName         |-> name,
      zombieDescription  |-> "A Level 1 CryptoZombie" ]

\* String.prototype.trim, for a string whose only white space is " "
RECURSIVE Trim(_)
Trim(s) ==
    IF Len(s) = 0 THEN s
    ELSE IF s[1] = " " THEN Trim(Tail(s))
    ELSE IF s[Len(s)] = " " THEN Trim(SubSeq(s, 1, Len(s) - 1))
    ELSE s

\* wrong: the name is trimmed
generateZombieTrimsName(id, name, dna) ==
    LET dnaStr == DnaStr(dna) IN
    [ headChoice         |-> Choice(Substring(dnaStr, 0, 2), 7),
      eyeChoice          |-> Choice(Substring(dnaStr, 2, 4), 11),
      shirtChoice        |-> Choice(Substring(dnaStr, 4, 6), 6),
      skinColorChoice    |-> Hue(Substring(dnaStr, 6, 8)),
      eyeColorChoice     |-> Hue(Substring(dnaStr, 8, 10)),
      clothesColorChoice |-> Hue(Substring(dnaStr, 10, 12)),
      zombieName         |-> Trim(name),
      zombieDescription  |-> "A Level 1 CryptoZombie" ]

generateZombie(id, name, dna) ==
    LET dnaStr == DnaStr(dna) IN
    [ headChoice         |-> Choice(Substring(dnaStr, 0, 2), 7),
      eyeChoice          |-> Choice(Substring(dnaStr, 2, 4), 11),
      shirtChoice        |-> Choice(Substring(dnaStr, 4, 6), 6),
      skinColorChoice    |-> Hue(Substring(dnaStr, 6, 8)),
      eyeColorChoice     |-> Hue(Substring(dnaStr, 8, 10)),
      clothesColorChoice |-> Hue(Substring(dnaStr, 10, 12)),
      zombieName         |-> name,
      zombieDescription  |-> "A Level 1 CryptoZombie" ]

(***************************************************************************)
(* The inputs of the trait specification                                   *)
(***************************************************************************)

\* The eight two-digit groups of a 16-digit dna, most significant first.
FromPairs(p) ==
    BigInt(p[1] * 10^6 + p[2] * 10^4 + p[3] * 10^2 + p[4],
           p[5] * 10^6 + p[6] * 10^4 + p[7] * 10^2 + p[8])

\* The values the groups other than the varied one take.
Fillers == {0, 7, 35, 99}

\* Every dna whose groups all equal one filler except one group, which
\* takes every value 0..99; and the specification's worked example.
ExampleDna == BigInt(12345678, 90123456)

DnaSamples ==
    { FromPairs([j \in 1..8 |-> IF j = k THEN v ELSE f]) :
        k \in 1..8, v \in 0..99, f \in Fillers } \cup {ExampleDna}

\* A zombie id is a small bigint, kept as an integer.
IdSamples == {0, 7}

\* A string is the sequence of its characters.
NameSamples == {<<>>, <<"R", "e", "x">>, <<" ", "R", "e", "x", " ">>}

TraitInputs == [id : IdSamples, name : NameSamples, dna : DnaSamples]



(***************************************************************************)
(* The gateway's collaborators: the wallet, the node and the contract.     *)
(* A value that may be undefined is <<v>>, or <<>> when it is undefined.   *)
(***************************************************************************)

\* How many createRandomZombie and getZombie invocations, subscriptions
\* and invocations of one unsubscribe handle a behaviour holds, and how
\* many zombies the other users of the contract create.
MaxCalls == 2
MaxReads == 1
MaxSubs == 1
MaxUnwatch == 2
MaxOthers == 2

Accounts == {"0xA", "0xB"}

Names == {<<"R", "e", "x">>, <<>>}

\* A name of 33 characters, and the names createRandomZombie is given when
\* nothing has validated them: empty, white space only, longer than 32.
LongName == [i \in 1..33 |-> "a"]
AnyNames == Names \cup {<<" ", " ">>, LongName}

\* How many createZombie and getZombie invocations and destroy() calls of
\* the ZombieApp a behaviour holds.
MaxCreates == 2
MaxGets == 2
MaxDestroy == 2

\* How many zombies the contract holds while the dashboard runs, how many
\* logs the node reports to it at once, how many of them undecoded, and
\* how many times its cleanup function is called.
MaxDashLogs == 12
MaxBatch == 2
MaxMalformed == 1
MaxCleanups == 2

\* The names typed into the app: the gateway's, a blank one, one of 32 and
\* one of 33 characters, and one padded with spaces.
Name32 == [i \in 1..32 |-> "a"]
AppNames == AnyNames \cup {Name32, <<" ", "R", "e", "x", " ">>}

\* Values a wallet provider rejects with that are not Error objects and
\* have no message property, named by how they print.
NonErrors == {"4001"}

\* What the collaborators reject with.
WalletErrors == {"User rejected the request"}
SimulateErrors == {"execution reverted"}
WriteErrors == {"User rejected the request", "insufficient funds"}
ReadErrors == {"execution reverted", "HTTP request failed"}

\* The ids getZombie is called with.
ReadIds == {0}

\* wrong: the contract may draw 10^16
DnaChoicesUnbounded == {ExampleDna, BigInt(35, 0), BigInt(10^8, 0)}

\* The dna values the contract draws for a new zombie.
DnaChoices == {ExampleDna, BigInt(35, 0)}

\* The zombie another user of the contract creates.
OtherName == <<"Z","e","d">>
OtherDna == BigInt(7, 70000000)

(***************************************************************************)
(* ZombieFactory.createRandomZombie                                        *)
(* An invocation is [name, pc, account, request, trace, thrown, error,     *)
(* hash]: pc is the collaborator call it awaits, or "returned" / "threw";  *)
(* trace is the collaborator calls it made, each with its arguments;       *)
(* thrown is what a collaborator rejected with, and error what the         *)
(* invocation itself rejected with.                                        *)
(***************************************************************************)

\* async createRandomZombie(name), up to its first await:
\* walletClient.requestAddresses()
CreateRandomZombie(name) ==
    [ name    |-> name,
      pc      |-> "requestAddresses",
      account |-> <<>>,
      request |-> <<>>,
      trace   |-> << [fn |-> "requestAddresses", arg |-> <<>>] >>,
      thrown  |-> <<>>,
      error   |-> <<>>,
      hash    |-> <<>> ]

\* The parameters of publicClient.simulateContract.
SimulateParams(name, account) ==
    [ functionName |-> "createRandomZombie",
      args         |-> <<name>>,
      account      |-> account ]

\* wrong: submits without simulating
AfterRequestAddressesNoSimulate(c, addresses) ==
    LET account == IF Len(addresses) > 0 THEN <<addresses[1]>> ELSE <<>> IN
    [c EXCEPT !.account = account,
              !.pc      = "writeContract",
              !.trace   = Append(@, [fn  |-> "writeContract",
                                     arg |-> <<SimulateParams(c.name, account)>>])]

\* wrong: the account of the first request is kept and used ever after
AfterRequestAddressesCached(c, addresses) ==
    [c EXCEPT !.account = <<"0xA">>,
              !.pc      = "simulateContract",
              !.trace   = Append(@, [fn  |-> "simulateContract",
                                     arg |-> <<SimulateParams(c.name, <<"0xA">>)>>])]

\* wrong: an empty name or one of more than 32 characters is refused
AfterRequestAddressesValidates(c, addresses) ==
    LET account == IF Len(addresses) > 0 THEN <<addresses[1]>> ELSE <<>> IN
    IF Len(c.name) = 0 \/ Len(c.name) > 32
    THEN [c EXCEPT !.pc = "threw", !.error = <<"Invalid name">>]
    ELSE [c EXCEPT !.account = account,
                   !.pc      = "simulateContract",
                   !.trace   = Append(@, [fn  |-> "simulateContract",
                                          arg |-> <<SimulateParams(c.name, account)>>])]

\* const [account] = await walletClient.requestAddresses(), then the call
\* of publicClient.simulateContract
AfterRequestAddresses(c, addresses) ==
    LET account == IF Len(addresses) > 0 THEN <<addresses[1]>> ELSE <<>> IN
    [c EXCEPT !.account = account,
              !.pc      = "simulateContract",
              !.trace   = Append(@, [fn  |-> "simulateContract",
                                     arg |-> <<SimulateParams(c.name, account)>>])]

\* const { request } = await publicClient.simulateContract(...), then the
\* call of walletClient.writeContract(request)
AfterSimulate(c, request) ==
    [c EXCEPT !.request = <<request>>,
              !.pc      = "writeContract",
              !.trace   = Append(@, [fn |-> "writeContract", arg |-> <<request>>])]

\* const hash = await walletClient.writeContract(request); return hash
AfterWrite(c, hash) ==
    [c EXCEPT !.pc = "returned", !.hash = <<hash>>]

\* wrong: a reverting simulation is logged and the request submitted anyway
CatchSubmitsAnyway(c, error) ==
    IF c.pc = "simulateContract"
    THEN [c EXCEPT !.pc    = "writeContract",
                   !.trace = Append(@, [fn  |-> "writeContract",
                                        arg |-> c.trace[Len(c.trace)].arg])]
    ELSE [c EXCEPT !.pc = "threw", !.error = <<error>>]

\* wrong: throws a new error in place of the one caught
CatchWraps(c, error) ==
    [c EXCEPT !.pc = "threw", !.error = <<"Error creating zombie">>]

\* catch (error) { console.error(...); throw error }
Catch(c, error) ==
    [c EXCEPT !.pc = "threw", !.error = <<error>>]

(***************************************************************************)
(* ZombieFactory.getZombie                                                 *)
(***************************************************************************)

\* wrong: asks the wallet for an account before reading
GetZombieRequestsAccount(zombieId) ==
    [ id     |-> zombieId,
      pc     |-> "readContract",
      trace  |-> << [fn |-> "requestAddresses", arg |-> <<>>],
                    [fn  |-> "readContract",
                     arg |-> <<[functionName |-> "zombies", args |-> <<zombieId>>]>>] >>,
      thrown |-> <<>>,
      error  |-> <<>>,
      result |-> <<>> ]

\* async getZombie(zombieId), up to its await: publicClient.readContract
GetZombie(zombieId) ==
    [ id     |-> zombieId,
      pc     |-> "readContract",
      trace  |-> << [fn  |-> "readContract",
                     arg |-> <<[functionName |-> "zombies", args |-> <<zombieId>>]>>] >>,
      thrown |-> <<>>,
      error  |-> <<>>,
      result |-> <<>> ]

\* wrong: an empty name is replaced by a default
AfterReadDefaultsName(r, result) ==
    [r EXCEPT !.pc     = "returned",
              !.result = <<[name |-> IF result[1] = <<>> THEN <<"?">> ELSE result[1],
                            dna  |-> result[2]]>>]

\* return { name: result[0], dna: result[1] }
AfterRead(r, result) ==
    [r EXCEPT !.pc     = "returned",
              !.result = <<[name |-> result[1], dna |-> result[2]]>>]

\* catch (error) { console.error(...); throw error }
CatchRead(r, error) ==
    [r EXCEPT !.pc = "threw", !.error = <<error>>]

(***************************************************************************)
(* ZombieFactory.watchNewZombieEvents                                      *)
(* A subscription is [state, start, cursor, handled, unwatched, stoppedAt, *)
(* raised]: start and cursor are the numbers of contract logs that         *)
(* preceded it and that the node has reported to it; handled is what the   *)
(* onLogs handler did with each reported log, in order; unwatched counts   *)
(* the invocations of its unsubscribe handle, stoppedAt is the number of   *)
(* contract logs emitted when it stopped, and raised says whether an       *)
(* invocation of the handle raised an error.                               *)
(***************************************************************************)

\* How the node client hands over a log: decoded, with no args at all, or
\* with args lacking a field (here dna).
LogShapes == {"decoded", "noArgs", "noDna"}

\* The log at position logIndex as onLogs receives it (log.args?: {
\* zombieId?, name?, dna? }).
RawLog(ev, logIndex, shape) ==
    [ logIndex |-> logIndex,
      args |->
        IF shape = "noArgs" THEN <<>>
        ELSE << [ zombieId |-> <<ev.zombieId>>,
                  name     |-> <<ev.name>>,
                  dna      |-> IF shape = "noDna" THEN <<>> ELSE <<ev.dna>> ] >> ]

\* publicClient.watchContractEvent({ address, abi, eventName, onLogs }): a
\* filter for the logs emitted from now on.
WatchContractEvent(emitted) ==
    [ state     |-> "active",
      start     |-> emitted,
      cursor    |-> emitted,
      handled   |-> <<>>,
      unwatched |-> 0,
      stoppedAt |-> 0,
      raised    |-> FALSE ]

\* The function watchContractEvent returns: it stops the filter, and does
\* nothing on a stopped one.
ViemUnwatch(s, emitted) ==
    IF s.state = "stopped" THEN s
    ELSE [s EXCEPT !.state = "stopped", !.stoppedAt = emitted]

\* wrong: a wrapper that refuses a second invocation
HandleThrowsWhenStopped(s, emitted) ==
    IF s.state = "stopped" THEN [s EXCEPT !.raised = TRUE]
    ELSE ViemUnwatch(s, emitted)

\* watchNewZombieEvents returns watchContractEvent's function as it is.
UnwatchHandle(s, emitted) == ViemUnwatch(s, emitted)

\* callback({ zombieId: log.args.zombieId!, name: log.args.name!,
\*            dna: log.args.dna! }): the non-null assertions do nothing at
\* run time.
CallbackArgument(args) ==
    [zombieId |-> args.zombieId, name |-> args.name, dna |-> args.dna]

RECURSIVE ForEachLog(_, _, _)
\* logs.forEach((log) => { if (log.args) { callback({...}) } }) from the
\* i-th log on, with a callback that throws at the throwsAt-th log (never
\* when throwsAt = 0): the exception ends the forEach, and the logs after
\* it are not looked at (they are kept by their position only).
ForEachLog(batch, i, throwsAt) ==
    IF i > Len(batch) THEN <<>>
    ELSE LET log == batch[i] IN
         IF Len(log.args) > 0
         THEN IF throwsAt = i
              THEN << [log |-> log, did |-> "callback",
                       event |-> <<CallbackArgument(log.args[1])>>, threw |-> TRUE] >>
                   \o [j \in 1..(Len(batch) - i) |->
                         [log |-> [logIndex |-> batch[i + j].logIndex, args |-> <<>>],
                          did |-> "aborted", event |-> <<>>, threw |-> FALSE]]
              ELSE << [log |-> log, did |-> "callback",
                       event |-> <<CallbackArgument(log.args[1])>>, threw |-> FALSE] >>
                   \o ForEachLog(batch, i + 1, throwsAt)
         ELSE << [log |-> log, did |-> "skipped", event |-> <<>>, threw |-> FALSE] >>
              \o ForEachLog(batch, i + 1, throwsAt)

\* wrong: a throwing callback ends the subscription
OnLogsStopsOnThrow(s, batch, throwsAt) ==
    LET done == ForEachLog(batch, 1, throwsAt) IN
    [s EXCEPT !.handled = @ \o done,
              !.state   = IF \E i \in 1..Len(done) : done[i].threw
                          THEN "stopped" ELSE @]

\* onLogs: (logs) => { logs.forEach(...) }
OnLogs(s, batch, throwsAt) ==
    [s EXCEPT !.handled = @ \o ForEachLog(batch, 1, throwsAt)]

(***************************************************************************)
(* The contract                                                            *)
(***************************************************************************)

\* wrong: the event of a zombie without a name carries a default name
ContractCreateNamesEvent(zs, name, dna) ==
    [ zombies |-> Append(zs, [name |-> name, dna |-> dna]),
      event   |-> [zombieId |-> Len(zs),
                   name     |-> IF name = <<>> THEN <<"?">> ELSE name,
                   dna      |-> dna] ]

\* wrong: the ids start at 1
ContractCreateIdsFromOne(zs, name, dna) ==
    [ zombies |-> Append(zs, [name |-> name, dna |-> dna]),
      event   |-> [zombieId |-> Len(zs) + 1, name |-> name, dna |-> dna] ]

\* createRandomZombie(_name) on the contract: the new zombie takes the next
\* index of the zombies array, and NewZombie(id, name, dna) is emitted.
ContractCreate(zs, name, dna) ==
    [ zombies |-> Append(zs, [name |-> name, dna |-> dna]),
      event   |-> [zombieId |-> Len(zs), name |-> name, dna |-> dna] ]

(***************************************************************************)
(* ZombieApp (examples/advanced-patterns.ts)                               *)
(* The app is [started, eventCleanup, sub, zombies, loading, creates,      *)
(* gets, loader, destroyed]: eventCleanup is <<k>> for the handle of the   *)
(* subscription subs[k], or <<>> for null, and sub remembers the           *)
(* subscription once eventCleanup is null again; zombies is the cache, a   *)
(* function from the cached ids to their entries; creates and gets are the *)
(* createZombie and getZombie invocations; loader is the loop of           *)
(* loadExistingZombies; destroyed counts the destroy() calls.              *)
(***************************************************************************)

\* new Map()
EmptyMap == [id \in {} |-> {}]

\* new ZombieApp(contractAddress)
NewZombieApp ==
    [ started      |-> FALSE,
      eventCleanup |-> <<>>,
      sub          |-> <<>>,
      zombies      |-> EmptyMap,
      loading      |-> FALSE,
      creates      |-> <<>>,
      gets         |-> <<>>,
      loader       |-> [pc |-> "idle", i |-> 0],
      destroyed    |-> 0 ]

\* createZombieDashboard and testEventListening have not been called.
NoDashboard ==
    [ created |-> FALSE,
      sub     |-> 0,
      stats   |-> [totalZombies |-> 0, recentZombies |-> <<>>],
      cleanups |-> 0 ]
NoTest ==
    [ started     |-> FALSE,
      sub         |-> 0,
      call        |-> 0,
      pc          |-> "idle",
      timer       |-> "none",
      delay       |-> 0,
      unwatchedBy |-> "none" ]

\* The ids the user asks the app for, and the bound of the loop of
\* loadExistingZombies.
AppIds == {0, 1}
LoadLimit == 10

\* Map.prototype.set
MapSet(m, id, e) == [k \in (DOMAIN m) \cup {id} |-> IF k = id THEN e ELSE m[k]]

\* The object the app caches for a zombie: { id, name, dna, visual, and
\* loadedAt or createdAt } (stamp names the date field; its value is not
\* modelled).
CacheEntry(id, name, dna, stamp) ==
    [ id     |-> id,
      name   |-> name,
      dna    |-> dna,
      visual |-> generateZombie(id, name, dna),
      stamp  |-> stamp ]

\* async getZombie(zombieId), up to its return from the cache or its
\* await of this.zombieFactory.getZombie(zombieId), called by the user or
\* by the loader.  The result is the app and the argument of the gateway
\* read, if one is made.
AppGetZombieStart(a, zombieId, by) ==
    IF zombieId \in DOMAIN a.zombies
    THEN [ app  |-> [a EXCEPT !.gets = Append(@,
                       [ id |-> zombieId, by |-> by, pc |-> "returned", read |-> 0,
                         value |-> <<a.zombies[zombieId]>>, epoch |-> a.destroyed ])],
           read |-> <<>> ]
    ELSE [ app  |-> [a EXCEPT !.gets = Append(@,
                       [ id |-> zombieId, by |-> by, pc |-> "getZombie",
                         read |-> Len(reads) + 1,
                         value |-> <<>>, epoch |-> a.destroyed ])],
           read |-> <<zombieId>> ]

\* wrong: a failed read is cached as an empty zombie
AppGetZombieCachesFailure(a, n, r) ==
    IF r.pc = "returned"
    THEN LET e == CacheEntry(a.gets[n].id, r.result[1].name, r.result[1].dna, "loadedAt")
         IN [a EXCEPT !.zombies = MapSet(@, a.gets[n].id, e),
                      !.gets[n] = [@ EXCEPT !.pc = "returned", !.value = <<e>>,
                                            !.epoch = a.destroyed]]
    ELSE [a EXCEPT !.zombies = MapSet(@, a.gets[n].id,
                                 CacheEntry(a.gets[n].id, <<>>, BigInt(0, 0), "loadedAt")),
                   !.gets[n] = [@ EXCEPT !.pc = "returned", !.epoch = a.destroyed]]

\* getZombie after its await, for the n-th invocation and the settled
\* gateway read r: build the entry, cache and return it; or the catch
\* block: return null (value <<>>).
AppGetZombieAfter(a, n, r) ==
    IF r.pc = "returned"
    THEN LET e == CacheEntry(a.gets[n].id, r.result[1].name, r.result[1].dna, "loadedAt")
         IN [a EXCEPT !.zombies = MapSet(@, a.gets[n].id, e),
                      !.gets[n] = [@ EXCEPT !.pc = "returned", !.value = <<e>>,
                                            !.epoch = a.destroyed]]
    ELSE [a EXCEPT !.gets[n] = [@ EXCEPT !.pc = "returned", !.epoch = a.destroyed]]

\* The callback of startEventListening throws on an event without dna
\* (generateZombie calls dna.toString()) or without zombieId
\* (event.zombieId.toString()).
AppCallbackThrows(args) == args.dna = <<>> \/ args.zombieId = <<>>

\* The callback of startEventListening on a whole event: generateZombie,
\* this.zombies.set(event.zombieId.toString(), zombie), onNewZombie.
AppOnNewZombie(a, event) ==
    [a EXCEPT !.zombies = MapSet(@, event.zombieId[1],
                            CacheEntry(event.zombieId[1], event.name[1],
                                       event.dna[1], "createdAt"))]

RECURSIVE AppOnHandled(_, _, _)
\* The app after the callbacks of the handled logs from the i-th on.
AppOnHandled(a, done, i) ==
    IF i > Len(done) THEN a
    ELSE IF done[i].did = "callback" /\ ~done[i].threw
         THEN AppOnHandled(AppOnNewZombie(a, done[i].event[1]), done, i + 1)
         ELSE AppOnHandled(a, done, i + 1)

\* The first log of the batch at which the app's callback throws, or 0.
AppThrowsAt(batch) ==
    LET at == {i \in 1..Len(batch) :
                 Len(batch[i].args) > 0 /\ AppCallbackThrows(batch[i].args[1])}
    IN IF at = {} THEN 0 ELSE CHOOSE i \in at : \A j \in at : i <= j

\* wrong: the handle is kept after it has been invoked
DestroyKeepsHandle(a) ==
    [ app     |-> [a EXCEPT !.zombies = EmptyMap,
                            !.destroyed = @ + 1],
      unwatch |-> a.eventCleanup ]

\* destroy(): invoke and drop the handle if there is one, clear the cache.
\* The result is the app and the subscription whose handle is invoked.
Destroy(a) ==
    [ app     |-> [a EXCEPT !.eventCleanup = <<>>,
                            !.zombies = EmptyMap,
                            !.destroyed = @ + 1],
      unwatch |-> a.eventCleanup ]

\* wrong: the length check is missing
CreateZombieNoLengthCheck(a, name) ==
    IF Len(Trim(name)) = 0
    THEN [ app  |-> [a EXCEPT !.creates = Append(@,
                       [ name |-> name, pc |-> "returned", call |-> 0,
                         result |-> <<FALSE>>,
                         shown |-> "Please enter a zombie name",
                         hidden |-> FALSE ])],
           call |-> <<>> ]
    ELSE [ app  |-> [a EXCEPT !.loading = TRUE,
                              !.creates = Append(@,
                       [ name |-> name, pc |-> "createRandomZombie",
                         call |-> Len(calls) + 1, result |-> <<>>,
                         shown |-> "Creating zombie...", hidden |-> FALSE ])],
           call |-> <<name>> ]

\* async createZombie(name), up to its await: the two checks, then
\* showLoading and this.zombieFactory.createRandomZombie(name).  The
\* result is the app and the argument of the gateway call, if one is made.
CreateZombie(a, name) ==
    IF Len(Trim(name)) = 0
    THEN [ app  |-> [a EXCEPT !.creates = Append(@,
                       [ name |-> name, pc |-> "returned", call |-> 0,
                         result |-> <<FALSE>>,
                         shown |-> "Please enter a zombie name",
                         hidden |-> FALSE ])],
           call |-> <<>> ]
    ELSE IF Len(name) > 32
    THEN [ app  |-> [a EXCEPT !.creates = Append(@,
                       [ name |-> name, pc |-> "returned", call |-> 0,
                         result |-> <<FALSE>>,
                         shown |-> "Zombie name too long (max 32 characters)",
                         hidden |-> FALSE ])],
           call |-> <<>> ]
    ELSE [ app  |-> [a EXCEPT !.loading = TRUE,
                              !.creates = Append(@,
                       [ name |-> name, pc |-> "createRandomZombie",
                         call |-> Len(calls) + 1, result |-> <<>>,
                         shown |-> "Creating zombie...", hidden |-> FALSE ])],
           call |-> <<name>> ]

\* error.message.includes(...) on the values the collaborators reject with
HasMessage(error) == error \notin NonErrors
IncludesUserRejected(error) == error = "User rejected the request"
IncludesInsufficientFunds(error) == error = "insufficient funds"

\* createZombie after its await, for the n-th invocation and the settled
\* gateway invocation c: return true; or the catch block, which reads
\* error.message and so throws a TypeError on a value without one; and
\* hideLoading in the finally block.
AfterCreateRandomZombie(a, n, c) ==
    IF c.pc = "returned"
    THEN [a EXCEPT !.loading = FALSE,
                   !.creates[n] = [@ EXCEPT !.pc = "returned",
                                            !.result = <<TRUE>>,
                                            !.shown = "Zombie creation started!",
                                            !.hidden = TRUE]]
    ELSE IF HasMessage(c.error[1])
    THEN [a EXCEPT !.loading = FALSE,
                   !.creates[n] = [@ EXCEPT
                      !.pc = "returned",
                      !.result = <<FALSE>>,
                      !.shown = IF IncludesUserRejected(c.error[1])
                                THEN "Transaction was cancelled"
                                ELSE IF IncludesInsufficientFunds(c.error[1])
                                THEN "Insufficient funds for transaction"
                                ELSE "Failed to create zombie. Please try again.",
                      !.hidden = TRUE]]
    ELSE [a EXCEPT !.loading = FALSE,
                   !.creates[n] = [@ EXCEPT !.pc = "threw", !.hidden = TRUE]]

(***************************************************************************)
(* createZombieDashboard (event-listening examples)                        *)
(* The dashboard is [created, sub, stats, cleanups]: sub is its            *)
(* subscription, stats the object the callback updates (lastActivity, a    *)
(* date, is not modelled), cleanups the calls of the function it returns.  *)
(***************************************************************************)

\* if (stats.recentZombies.length > 10) ... slice(0, 10)
RecentLimit == 10

\* { id: event.zombieId.toString(), name: event.name,
\*   dna: event.dna.toString(), createdAt } (the date is not modelled)
RecentEntry(event) ==
    [ id   |-> DigitsOfNat(event.zombieId[1]),
      name |-> event.name,
      dna  |-> BigIntToString(event.dna[1]) ]

\* event.zombieId.toString() and event.dna.toString() throw on undefined.
DashboardCallbackThrows(args) == args.zombieId = <<>> \/ args.dna = <<>>

\* The callback of createZombieDashboard: stats.totalZombies++, then the
\* unshift of the new entry (whose construction may throw), then the cut
\* to the first 10.
DashboardCallback(stats, event) ==
    LET counted == [stats EXCEPT !.totalZombies = @ + 1] IN
    IF DashboardCallbackThrows(event) THEN counted
    ELSE LET recent == <<RecentEntry(event)>> \o counted.recentZombies IN
         [counted EXCEPT !.recentZombies =
            IF Len(recent) > RecentLimit
            THEN SubSeq(recent, 1, RecentLimit) ELSE recent]

RECURSIVE DashboardOnHandled(_, _, _)
\* The stats after the callbacks of the handled logs from the i-th on.
DashboardOnHandled(stats, done, i) ==
    IF i > Len(done) THEN stats
    ELSE IF done[i].did = "callback"
         THEN DashboardOnHandled(DashboardCallback(stats, done[i].event[1]), done, i + 1)
         ELSE DashboardOnHandled(stats, done, i + 1)

\* The first log of the batch at which the dashboard's callback throws, or 0.
DashboardThrowsAt(batch) ==
    LET at == {i \in 1..Len(batch) :
                 Len(batch[i].args) > 0 /\ DashboardCallbackThrows(batch[i].args[1])}
    IN IF at = {} THEN 0 ELSE CHOOSE i \in at : \A j \in at : i <= j

\* The logs of the sequence that the node handed over undecoded
Undecoded(done) ==
    {n \in 1..Len(done) :
       done[n].did # "aborted" /\
       (done[n].log.args = <<>> \/ done[n].log.args[1].dna = <<>>)}

(***************************************************************************)
(* testEventListening (event-listening examples)                           *)
(* The test is [started, sub, call, pc, timer, delay, unwatchedBy]: sub is *)
(* its subscription and call its createRandomZombie invocation; pc is      *)
(* "createRandomZombie" while it awaits and "returned" after; timer is     *)
(* "none", "scheduled" or "fired", with the delay it was scheduled with;   *)
(* unwatchedBy names the place that invoked the handle: "catch" or "timer".*)
(***************************************************************************)

\* createRandomZombie('TestZombie')
TestZombie == <<"T","e","s","t","Z","o","m","b","i","e">>

\* setTimeout(..., 30000)
TimerDelay == 30000

\* testEventListening() up to its await, with the subscription sub it
\* opened and the gateway invocation call it made.
TestEventListening(sub, call) ==
    [ started     |-> TRUE,
      sub         |-> sub,
      call        |-> call,
      pc          |-> "createRandomZombie",
      timer       |-> "none",
      delay       |-> 0,
      unwatchedBy |-> "none" ]

\* wrong: the catch block returns without invoking the handle
AfterCreateTestZombieNoCleanup(t, c) ==
    IF c.pc = "threw"
    THEN [ test    |-> [t EXCEPT !.pc = "returned"],
           unwatch |-> FALSE ]
    ELSE [ test    |-> [t EXCEPT !.pc = "returned",
                                 !.timer = "scheduled",
                                 !.delay = TimerDelay],
           unwatch |-> FALSE ]

\* testEventListening after its await, for the settled gateway invocation
\* c: the catch block invokes the handle and returns; otherwise the timer
\* is scheduled.  The result is the test and whether the handle is invoked.
AfterCreateTestZombie(t, c) ==
    IF c.pc = "threw"
    THEN [ test    |-> [t EXCEPT !.pc = "returned", !.unwatchedBy = "catch"],
           unwatch |-> TRUE ]
    ELSE [ test    |-> [t EXCEPT !.pc = "returned",
                                 !.timer = "scheduled",
                                 !.delay = TimerDelay],
           unwatch |-> FALSE ]

\* The callback of the timer: unwatch()
TimerCallback(t) == [t EXCEPT !.timer = "fired", !.unwatchedBy = "timer"]

(***************************************************************************)
(* The gateway specification                                               *)
(***************************************************************************)

\* The invocation c, whose collaborator call `by` rejects with err.
Rejected(c, by, err) == [c EXCEPT !.thrown = <<[by |-> by, error |-> err]>>]

\* Before anything of the examples runs.
InitApp ==
    /\ app = NewZombieApp
    /\ dash = NoDashboard
    /\ test = NoTest

InitGateway ==
    /\ wallet \in Accounts
    /\ calls = <<>>
    /\ reads = <<>>
    /\ pending = {}
    /\ zombies = <<>>
    /\ logs = <<>>
    /\ subs = <<>>

Init ==
    /\ tIn = [id |-> 0, name |-> <<>>, dna |-> BigInt(0, 0)]
    /\ tOut = NoDetails
    /\ InitGateway
    /\ InitApp

\* The user selects another account in the wallet.
WalletSwitch ==
    /\ \E a \in Accounts \ {wallet} : wallet' = a
    /\ UNCHANGED <<traitVars, appVars, calls, reads, pending, zombies, logs, subs>>

CallCreateRandomZombie ==
    /\ Len(calls) < MaxCalls
    /\ \E name \in Names : calls' = Append(calls, CreateRandomZombie(name))
    /\ UNCHANGED <<traitVars, appVars, wallet, reads, pending, zombies, logs, subs>>

\* createRandomZombie called with a name nothing has validated.
CallCreateRandomZombieAnyName ==
    /\ Len(calls) < MaxCalls
    /\ \E name \in AnyNames : calls' = Append(calls, CreateRandomZombie(name))
    /\ UNCHANGED <<traitVars, appVars, wallet, reads, pending, zombies, logs, subs>>

\* walletClient.requestAddresses() resolves with the selected account.
RequestAddressesResolves ==
    /\ \E i \in 1..Len(calls) :
         /\ calls[i].pc = "requestAddresses"
         /\ calls' = [calls EXCEPT ![i] = AfterRequestAddresses(@, <<wallet>>)]
    /\ UNCHANGED <<traitVars, appVars, wallet, reads, pending, zombies, logs, subs>>

RequestAddressesRejects ==
    /\ \E i \in 1..Len(calls), err \in WalletErrors :
         /\ calls[i].pc = "requestAddresses"
         /\ calls' = [calls EXCEPT ![i] = Catch(Rejected(@, "requestAddresses", err), err)]
    /\ UNCHANGED <<traitVars, appVars, wallet, reads, pending, zombies, logs, subs>>

\* publicClient.simulateContract resolves with the request to submit: the
\* parameters it was given.
SimulateResolves ==
    /\ \E i \in 1..Len(calls) :
         /\ calls[i].pc = "simulateContract"
         /\ calls' = [calls EXCEPT
                        ![i] = AfterSimulate(@, @.trace[Len(@.trace)].arg[1])]
    /\ UNCHANGED <<traitVars, appVars, wallet, reads, pending, zombies, logs, subs>>

SimulateReverts ==
    /\ \E i \in 1..Len(calls), err \in SimulateErrors :
         /\ calls[i].pc = "simulateContract"
         /\ calls' = [calls EXCEPT ![i] = Catch(Rejected(@, "simulateContract", err), err)]
    /\ UNCHANGED <<traitVars, appVars, wallet, reads, pending, zombies, logs, subs>>

\* walletClient.writeContract(request) signs and broadcasts the transaction
\* and resolves with its hash (the hash of the i-th invocation's is i).
WriteResolves ==
    /\ \E i \in 1..Len(calls) :
         /\ calls[i].pc = "writeContract"
         /\ LET request == calls[i].trace[Len(calls[i].trace)].arg[1] IN
            pending' = pending \cup
              {[hash |-> i, name |-> request.args[1], from |-> request.account]}
         /\ calls' = [calls EXCEPT ![i] = AfterWrite(@, i)]
    /\ UNCHANGED <<traitVars, appVars, wallet, reads, zombies, logs, subs>>

WriteRejects ==
    /\ \E i \in 1..Len(calls), err \in WriteErrors :
         /\ calls[i].pc = "writeContract"
         /\ calls' = [calls EXCEPT ![i] = Catch(Rejected(@, "writeContract", err), err)]
    /\ UNCHANGED <<traitVars, appVars, wallet, reads, pending, zombies, logs, subs>>

\* A pending transaction is included in a block: the contract runs.
Mine ==
    /\ \E tx \in pending, dna \in DnaChoices :
         LET made == ContractCreate(zombies, tx.name, dna) IN
         /\ pending' = pending \ {tx}
         /\ zombies' = made.zombies
         /\ logs' = Append(logs, [ tx       |-> tx.hash,
                                   zombieId |-> made.event.zombieId,
                                   name     |-> made.event.name,
                                   dna      |-> made.event.dna ])
    /\ UNCHANGED <<traitVars, appVars, wallet, calls, reads, subs>>

\* A transaction of another user of the contract is included in a block
\* (its hash is not one of this client's).
OtherUserCreates ==
    /\ Len(logs) < MaxOthers
    /\ LET made == ContractCreate(zombies, OtherName, OtherDna) IN
         /\ zombies' = made.zombies
         /\ logs' = Append(logs, [ tx       |-> 0 - Len(zombies'),
                                   zombieId |-> made.event.zombieId,
                                   name     |-> made.event.name,
                                   dna      |-> made.event.dna ])
    /\ UNCHANGED <<traitVars, appVars, wallet, calls, reads, pending, subs>>

CallGetZombie ==
    /\ Len(reads) < MaxReads
    /\ \E id \in ReadIds : reads' = Append(reads, GetZombie(id))
    /\ UNCHANGED <<traitVars, appVars, wallet, calls, pending, zombies, logs, subs>>

\* publicClient.readContract resolves with the tuple zombies(id).
ReadResolves ==
    /\ \E j \in 1..Len(reads) :
         /\ reads[j].pc = "readContract"
         /\ reads[j].id < Len(zombies)
         /\ LET z == zombies[reads[j].id + 1] IN
            reads' = [reads EXCEPT ![j] = AfterRead(@, <<z.name, z.dna>>)]
    /\ UNCHANGED <<traitVars, appVars, wallet, calls, pending, zombies, logs, subs>>

\* It rejects: the node cannot be reached, or the index is out of range.
ReadRejects ==
    /\ \E j \in 1..Len(reads), err \in ReadErrors :
         /\ reads[j].pc = "readContract"
         /\ err = "execution reverted" => reads[j].id >= Len(zombies)
         /\ reads' = [reads EXCEPT ![j] = CatchRead(Rejected(@, "readContract", err), err)]
    /\ UNCHANGED <<traitVars, appVars, wallet, calls, pending, zombies, logs, subs>>

CallWatchNewZombieEvents ==
    /\ Len(subs) < MaxSubs
    /\ subs' = Append(subs, WatchContractEvent(Len(logs)))
    /\ UNCHANGED <<traitVars, appVars, wallet, calls, reads, pending, zombies, logs>>

\* The node reports the next logs to an active subscription: onLogs runs
\* on the batch.
NodeReports ==
    /\ \E k \in 1..Len(subs) :
         /\ subs[k].state = "active"
         /\ \E n \in (subs[k].cursor + 1)..Len(logs) :
              \E shapes \in [1..(n - subs[k].cursor) -> LogShapes],
                 throwsAt \in 0..(n - subs[k].cursor) :
                LET batch == [i \in 1..(n - subs[k].cursor) |->
                                RawLog(logs[subs[k].cursor + i],
                                       subs[k].cursor + i, shapes[i])]
                IN subs' = [subs EXCEPT
                              ![k] = [OnLogs(@, batch, throwsAt) EXCEPT !.cursor = n]]
    /\ UNCHANGED <<traitVars, appVars, wallet, calls, reads, pending, zombies, logs>>

\* The unsubscribe handle is invoked.
InvokeUnwatch ==
    /\ \E k \in 1..Len(subs) :
         /\ subs[k].unwatched < MaxUnwatch
         /\ subs' = [subs EXCEPT
                       ![k] = [UnwatchHandle(@, Len(logs)) EXCEPT
                                 !.unwatched = subs[k].unwatched + 1]]
    /\ UNCHANGED <<traitVars, appVars, wallet, calls, reads, pending, zombies, logs>>

\* The wallet provider rejects with a value that is not an Error.
RequestAddressesRejectsWithValue ==
    /\ \E i \in 1..Len(calls), v \in NonErrors :
         /\ calls[i].pc = "requestAddresses"
         /\ calls' = [calls EXCEPT ![i] = Catch(Rejected(@, "requestAddresses", v), v)]
    /\ UNCHANGED <<traitVars, appVars, wallet, reads, pending, zombies, logs, subs>>

\* The user submits a name to the app.
AppCreateZombie ==
    /\ Len(app.creates) < MaxCreates
    /\ \E name \in AppNames :
         LET r == CreateZombie(app, name) IN
         /\ app' = r.app
         /\ calls' = IF r.call = <<>> THEN calls
                     ELSE Append(calls, CreateRandomZombie(r.call[1]))
    /\ UNCHANGED <<traitVars, dash, test, wallet, reads, pending, zombies, logs, subs>>

\* The gateway's createRandomZombie has settled: createZombie resumes.
AppCreateZombieResumes ==
    /\ \E n \in 1..Len(app.creates) :
         /\ app.creates[n].pc = "createRandomZombie"
         /\ calls[app.creates[n].call].pc \in {"returned", "threw"}
         /\ app' = AfterCreateRandomZombie(app, n, calls[app.creates[n].call])
    /\ UNCHANGED <<traitVars, dash, test, gatewayVars>>

\* loadExistingZombies at the head of its loop with i: the call of
\* this.getZombie(BigInt(i)) while i < 10, up to its await.  The loop is
\* cut short ("capped") when the behaviour holds MaxGets invocations.
LoaderIteration(a, i) ==
    IF i >= LoadLimit
    THEN [ app |-> [a EXCEPT !.loader = [pc |-> "done", i |-> i]], read |-> <<>> ]
    ELSE IF Len(a.gets) >= MaxGets
    THEN [ app |-> [a EXCEPT !.loader = [pc |-> "capped", i |-> i]], read |-> <<>> ]
    ELSE LET r == AppGetZombieStart(a, i, "loader") IN
         [ app  |-> [r.app EXCEPT !.loader = [pc |-> "awaiting", i |-> i]],
           read |-> r.read ]

\* initialize(), once and before any destroy(): startEventListening
\* subscribes, and loadExistingZombies runs up to its first await.
AppInitialize ==
    /\ ~app.started
    /\ app.destroyed = 0
    /\ subs' = Append(subs, WatchContractEvent(Len(logs)))
    /\ LET r == LoaderIteration([app EXCEPT !.started = TRUE,
                                            !.eventCleanup = <<Len(subs) + 1>>,
                                            !.sub = <<Len(subs) + 1>>], 0)
       IN /\ app' = r.app
          /\ reads' = IF r.read = <<>> THEN reads
                      ELSE Append(reads, GetZombie(r.read[1]))
    /\ UNCHANGED <<traitVars, dash, test, wallet, calls, pending, zombies, logs>>

\* The getZombie the loop awaits has settled: the break of the catch
\* block had it failed, or else i++ and the next iteration.
AppLoaderResumes ==
    /\ app.loader.pc = "awaiting"
    /\ LET g == CHOOSE n \in 1..Len(app.gets) :
                   /\ app.gets[n].by = "loader"
                   /\ app.gets[n].id = app.loader.i
           r == LoaderIteration(app, app.loader.i + 1)
       IN /\ app.gets[g].pc \in {"returned", "threw"}
          /\ app' = IF app.gets[g].pc = "threw"
                    THEN [app EXCEPT !.loader = [pc |-> "done", i |-> app.loader.i]]
                    ELSE r.app
          /\ reads' = IF app.gets[g].pc = "threw" \/ r.read = <<>> THEN reads
                      ELSE Append(reads, GetZombie(r.read[1]))
    /\ UNCHANGED <<traitVars, dash, test, wallet, calls, pending, zombies, logs, subs>>

\* The user asks the app for a zombie.
AppGetZombie ==
    /\ Len(app.gets) < MaxGets
    /\ \E id \in AppIds :
         LET r == AppGetZombieStart(app, id, "user") IN
         /\ app' = r.app
         /\ reads' = IF r.read = <<>> THEN reads
                     ELSE Append(reads, GetZombie(r.read[1]))
    /\ UNCHANGED <<traitVars, dash, test, wallet, calls, pending, zombies, logs, subs>>

\* The gateway's getZombie has settled: the app's getZombie resumes.
AppGetZombieResumes ==
    /\ \E n \in 1..Len(app.gets) :
         /\ app.gets[n].pc = "getZombie"
         /\ reads[app.gets[n].read].pc \in {"returned", "threw"}
         /\ app' = AppGetZombieAfter(app, n, reads[app.gets[n].read])
    /\ UNCHANGED <<traitVars, dash, test, gatewayVars>>

\* The node reports the next logs to the app's subscription: onLogs runs
\* the app's callback on them.
NodeReportsToApp ==
    /\ app.sub # <<>>
    /\ LET k == app.sub[1] IN
         /\ subs[k].state = "active"
         /\ \E n \in (subs[k].cursor + 1)..Len(logs) :
              \E shapes \in [1..(n - subs[k].cursor) -> LogShapes] :
                LET batch == [i \in 1..(n - subs[k].cursor) |->
                                RawLog(logs[subs[k].cursor + i],
                                       subs[k].cursor + i, shapes[i])]
                    done  == ForEachLog(batch, 1, AppThrowsAt(batch))
                IN /\ subs' = [subs EXCEPT
                                 ![k] = [OnLogs(@, batch, AppThrowsAt(batch))
                                           EXCEPT !.cursor = n]]
                   /\ app' = AppOnHandled(app, done, 1)
    /\ UNCHANGED <<traitVars, dash, test, wallet, calls, reads, pending, zombies, logs>>

\* destroy()
AppDestroy ==
    /\ app.destroyed < MaxDestroy
    /\ LET r == Destroy(app) IN
         /\ app' = r.app
         /\ subs' = IF r.unwatch = <<>> THEN subs
                    ELSE [subs EXCEPT ![r.unwatch[1]] =
                            [UnwatchHandle(@, Len(logs)) EXCEPT !.unwatched = @ + 1]]
    /\ UNCHANGED <<traitVars, dash, test, wallet, calls, reads, pending, zombies, logs>>

\* createZombieDashboard(): the subscription (the interval only logs).
CreateDashboard ==
    /\ ~dash.created
    /\ subs' = Append(subs, WatchContractEvent(Len(logs)))
    /\ dash' = [dash EXCEPT !.created = TRUE, !.sub = Len(subs) + 1]
    /\ UNCHANGED <<traitVars, app, test, wallet, calls, reads, pending, zombies, logs>>

\* A transaction of one of the contract's many users is included in a
\* block.
UsersCreate ==
    /\ Len(logs) < MaxDashLogs
    /\ LET made == ContractCreate(zombies, OtherName, OtherDna) IN
         /\ zombies' = made.zombies
         /\ logs' = Append(logs, [ tx       |-> 0 - Len(zombies'),
                                   zombieId |-> made.event.zombieId,
                                   name     |-> made.event.name,
                                   dna      |-> made.event.dna ])
    /\ UNCHANGED <<traitVars, appVars, wallet, calls, reads, pending, subs>>

\* The node reports the next logs to the dashboard's subscription: onLogs
\* runs the dashboard's callback on them.
NodeReportsToDashboard ==
    /\ dash.created
    /\ LET k == dash.sub IN
         /\ subs[k].state = "active"
         /\ \E size \in 1..MaxBatch :
              /\ subs[k].cursor + size <= Len(logs)
              /\ \E shapes \in [1..size -> LogShapes] :
                   LET batch == [i \in 1..size |->
                                   RawLog(logs[subs[k].cursor + i],
                                          subs[k].cursor + i, shapes[i])]
                       done  == ForEachLog(batch, 1, DashboardThrowsAt(batch))
                   IN /\ Cardinality(Undecoded(subs[k].handled \o done)) <= MaxMalformed
                      /\ subs' = [subs EXCEPT
                                    ![k] = [OnLogs(@, batch, DashboardThrowsAt(batch))
                                              EXCEPT !.cursor = subs[k].cursor + size]]
                      /\ dash' = [dash EXCEPT
                                    !.stats = DashboardOnHandled(@, done, 1)]
    /\ UNCHANGED <<traitVars, app, test, wallet, calls, reads, pending, zombies, logs>>

\* The function createZombieDashboard returned is called: unwatch() and
\* clearInterval.
DashboardCleanup ==
    /\ dash.created
    /\ dash.cleanups < MaxCleanups
    /\ dash' = [dash EXCEPT !.cleanups = @ + 1]
    /\ subs' = [subs EXCEPT ![dash.sub] =
                  [UnwatchHandle(@, Len(logs)) EXCEPT !.unwatched = @ + 1]]
    /\ UNCHANGED <<traitVars, app, test, wallet, calls, reads, pending, zombies, logs>>

\* testEventListening() is called.
CallTestEventListening ==
    /\ ~test.started
    /\ subs' = Append(subs, WatchContractEvent(Len(logs)))
    /\ calls' = Append(calls, CreateRandomZombie(TestZombie))
    /\ test' = TestEventListening(Len(subs) + 1, Len(calls) + 1)
    /\ UNCHANGED <<traitVars, app, dash, wallet, reads, pending, zombies, logs>>

\* The gateway's createRandomZombie has settled: testEventListening
\* resumes.
TestResumes ==
    /\ test.pc = "createRandomZombie"
    /\ calls[test.call].pc \in {"returned", "threw"}
    /\ LET r == AfterCreateTestZombie(test, calls[test.call]) IN
         /\ test' = r.test
         /\ subs' = IF r.unwatch
                    THEN [subs EXCEPT ![test.sub] =
                            [UnwatchHandle(@, Len(logs)) EXCEPT !.unwatched = @ + 1]]
                    ELSE subs
    /\ UNCHANGED <<traitVars, app, dash, wallet, calls, reads, pending, zombies, logs>>

\* The timer of testEventListening fires.
TimerFires ==
    /\ test.timer = "scheduled"
    /\ test' = TimerCallback(test)
    /\ subs' = [subs EXCEPT ![test.sub] =
                  [UnwatchHandle(@, Len(logs)) EXCEPT !.unwatched = @ + 1]]
    /\ UNCHANGED <<traitVars, app, dash, wallet, calls, reads, pending, zombies, logs>>

\* The node reports the next logs to the test's subscription: its
\* callback only writes to the console.
NodeReportsToTest ==
    /\ test.started
    /\ LET k == test.sub IN
         /\ subs[k].state = "active"
         /\ \E n \in (subs[k].cursor + 1)..Len(logs) :
              \E shapes \in [1..(n - subs[k].cursor) -> LogShapes] :
                LET batch == [i \in 1..(n - subs[k].cursor) |->
                                RawLog(logs[subs[k].cursor + i],
                                       subs[k].cursor + i, shapes[i])]
                IN subs' = [subs EXCEPT
                              ![k] = [OnLogs(@, batch, 0) EXCEPT !.cursor = n]]
    /\ UNCHANGED <<traitVars, appVars, wallet, calls, reads, pending, zombies, logs>>

\* createRandomZombie, getZombie, the wallet and the chain.
Next ==
    \/ WalletSwitch
    \/ CallCreateRandomZombie
    \/ RequestAddressesResolves
    \/ RequestAddressesRejects
    \/ SimulateResolves
    \/ SimulateReverts
    \/ WriteResolves
    \/ WriteRejects
    \/ Mine
    \/ CallGetZombie
    \/ ReadResolves
    \/ ReadRejects

Spec == Init /\ [][Next]_vars

\* The subscriptions, on a contract that other users call.
NextWatch ==
    \/ OtherUserCreates
    \/ CallWatchNewZombieEvents
    \/ NodeReports
    \/ InvokeUnwatch

SpecWatch == Init /\ [][NextWatch]_vars

\* The whole gateway: the subscriptions, and this client's creations and
\* reads.
NextAll ==
    \/ Next
    \/ CallWatchNewZombieEvents
    \/ NodeReports
    \/ InvokeUnwatch

SpecAll == Init /\ [][NextAll]_vars

\* The dashboard, on a contract that many users call.
NextDashboard ==
    \/ CreateDashboard
    \/ UsersCreate
    \/ NodeReportsToDashboard
    \/ DashboardCleanup

SpecDashboard == Init /\ [][NextDashboard]_vars

\* testEventListening, the wallet, the node and the chain.
NextTest ==
    \/ CallTestEventListening
    \/ WalletSwitch
    \/ RequestAddressesResolves
    \/ RequestAddressesRejects
    \/ SimulateResolves
    \/ SimulateReverts
    \/ WriteResolves
    \/ WriteRejects
    \/ Mine
    \/ OtherUserCreates
    \/ NodeReportsToTest
    \/ TestResumes
    \/ TimerFires

\* The event loop runs the continuation of a settled await and fires a
\* scheduled timer; nothing makes the wallet or the node answer.
SpecTest ==
    /\ Init
    /\ [][NextTest]_vars
    /\ WF_vars(TestResumes)
    /\ WF_vars(TimerFires)

\* createRandomZombie on names of every kind.
NextNames ==
    \/ CallCreateRandomZombieAnyName
    \/ RequestAddressesResolves
    \/ RequestAddressesRejects
    \/ SimulateResolves
    \/ SimulateReverts
    \/ WriteResolves
    \/ WriteRejects

SpecNames == Init /\ [][NextNames]_vars

\* The ZombieApp's cache: initialize, getZombie, the events and destroy,
\* on a contract that other users call.
NextApp ==
    \/ OtherUserCreates
    \/ AppInitialize
    \/ AppLoaderResumes
    \/ AppGetZombie
    \/ AppGetZombieResumes
    \/ ReadResolves
    \/ ReadRejects
    \/ NodeReportsToApp
    \/ AppDestroy

SpecApp == Init /\ [][NextApp]_vars

\* ZombieApp.createZombie over the gateway.
NextCreate ==
    \/ AppCreateZombie
    \/ RequestAddressesResolves
    \/ RequestAddressesRejects
    \/ RequestAddressesRejectsWithValue
    \/ SimulateResolves
    \/ SimulateReverts
    \/ WriteResolves
    \/ WriteRejects
    \/ AppCreateZombieResumes

SpecCreate == Init /\ [][NextCreate]_vars

(***************************************************************************)
(* The trait specification: generateZombie on every sampled input          *)
(***************************************************************************)

InitTraits ==
    /\ tIn \in TraitInputs
    /\ tOut = NoDetails
    /\ InitGateway
    /\ InitApp

\* const details = generateZombie(id, name, dna)
CallGenerateZombie ==
    /\ tOut = NoDetails
    /\ tOut' = generateZombie(tIn.id, tIn.name, tIn.dna)
    /\ UNCHANGED <<tIn, gatewayVars, appVars>>

NextTraits == CallGenerateZombie

SpecTraits == InitTraits /\ [][NextTraits]_vars

(***************************************************************************)
(* The claims about generateZombie (under SpecTraits)                      *)
(***************************************************************************)

\* The k-th two-digit group (k = 0..7) of dna written on 16 digits, by
\* arithmetic on the number: (dna div 10^(14 - 2k)) mod 100.
PairAt(dna, k) ==
    IF k < 4 THEN (dna.hi \div 10^(6 - 2 * k)) % 100
    ELSE (dna.lo \div 10^(14 - 2 * k)) % 100

Called == tOut # NoDetails

\* C1: for every dna below 10^16, headChoice, eyeChoice and shirtChoice are
\* (g mod 7) + 1, (g mod 11) + 1 and (g mod 6) + 1 of the first, second and
\* third two-digit group g of the dna padded to 16 digits; the dna
\* 1234567890123456 gives 6, 2 and 3.
C1_ChoicesFromDigits ==
    Called =>
      /\ tOut.headChoice  = (PairAt(tIn.dna, 0) % 7) + 1
      /\ tOut.eyeChoice   = (PairAt(tIn.dna, 1) % 11) + 1
      /\ tOut.shirtChoice = (PairAt(tIn.dna, 2) % 6) + 1
      /\ tIn.dna = ExampleDna =>
           /\ tOut.headChoice = 6
           /\ tOut.eyeChoice = 2
           /\ tOut.shirtChoice = 3

C1_Witness ==
    /\ Called
    /\ tIn.dna = ExampleDna
    /\ tOut.headChoice = 6 /\ tOut.eyeChoice = 2 /\ tOut.shirtChoice = 3

\* C2: for every dna below 10^16 the three colour choices equal
\* (v * 360) div 100 for the two-digit groups v at digits [6,8), [8,10) and
\* [10,12).
C2_HueExactFloor ==
    Called =>
      /\ tOut.skinColorChoice    = (PairAt(tIn.dna, 3) * 360) \div 100
      /\ tOut.eyeColorChoice     = (PairAt(tIn.dna, 4) * 360) \div 100
      /\ tOut.clothesColorChoice = (PairAt(tIn.dna, 5) * 360) \div 100

\* What the code computes instead: the exact value, but one less for the
\* groups 35 and 70, where the double (v / 100) * 360 falls just below the
\* integer.
HueOfCode(v) == ((v * 360) \div 100) - (IF v \in {35, 70} THEN 1 ELSE 0)

HueAsComputed ==
    Called =>
      /\ tOut.skinColorChoice    = HueOfCode(PairAt(tIn.dna, 3))
      /\ tOut.eyeColorChoice     = HueOfCode(PairAt(tIn.dna, 4))
      /\ tOut.clothesColorChoice = HueOfCode(PairAt(tIn.dna, 5))

\* C3: for every dna below 10^16 and any id and name, headChoice is in
\* 1..7, eyeChoice in 1..11, shirtChoice in 1..6, and the three colour
\* choices are in 0..359, in fact at most 356.
C3_TraitRanges ==
    Called =>
      /\ tOut.headChoice \in 1..7
      /\ tOut.eyeChoice \in 1..11
      /\ tOut.shirtChoice \in 1..6
      /\ tOut.skinColorChoice \in 0..356
      /\ tOut.eyeColorChoice \in 0..356
      /\ tOut.clothesColorChoice \in 0..356

C3_Witness ==
    /\ Called
    /\ tOut.headChoice = 7
    /\ tOut.skinColorChoice = 356
    /\ tOut.clothesColorChoice = 356

\* The six numeric traits of a ZombieDetails.
Traits(d) ==
    <<d.headChoice, d.eyeChoice, d.shirtChoice,
      d.skinColorChoice, d.eyeColorChoice, d.clothesColorChoice>>

\* C12: the six numeric traits of generateZombie(id, name, dna) depend on
\* dna alone: with any other id and name the same dna gives the same six
\* traits, and the same id, name and dna give the same record.
C12_TraitsDependOnDnaAlone ==
    Called =>
      /\ \A id \in IdSamples, name \in NameSamples :
           Traits(generateZombie(id, name, tIn.dna)) = Traits(tOut)
      /\ generateZombie(tIn.id, tIn.name, tIn.dna) = tOut

C12_Witness ==
    /\ Called
    /\ tIn.id = 7
    /\ tIn.name = <<"R", "e", "x">>
    /\ tIn.dna = ExampleDna
    /\ Traits(generateZombie(0, <<>>, tIn.dna)) = Traits(tOut)

\* The dna with its last four decimal digits replaced by those of t.
WithLow4(dna, t) == BigInt(dna.hi, (dna.lo \div 10^4) * 10^4 + t)

\* The last four digits a dna is compared under.
Low4Samples == {0, 1, 3570, 9999}

TwoDigits(v) == <<v \div 10, v % 10>>

\* C14: a dna of fewer than 16 digits is sliced as if written on 16 digits
\* with leading zeros: each trait comes from its fixed group of dna (head
\* from dna div 10^14, eyes from (dna div 10^12) mod 100, and so on), and
\* dna = 0 gives head, eye and shirt 1 and the three colours 0.
C14_PaddedFixedPositions ==
    Called =>
      /\ tOut.headChoice         = Choice(TwoDigits(PairAt(tIn.dna, 0)), 7)
      /\ tOut.eyeChoice          = Choice(TwoDigits(PairAt(tIn.dna, 1)), 11)
      /\ tOut.shirtChoice        = Choice(TwoDigits(PairAt(tIn.dna, 2)), 6)
      /\ tOut.skinColorChoice    = Hue(TwoDigits(PairAt(tIn.dna, 3)))
      /\ tOut.eyeColorChoice     = Hue(TwoDigits(PairAt(tIn.dna, 4)))
      /\ tOut.clothesColorChoice = Hue(TwoDigits(PairAt(tIn.dna, 5)))
      /\ tIn.dna = BigInt(0, 0) => Traits(tOut) = <<1, 1, 1, 0, 0, 0>>

C14_Witness ==
    /\ Called
    /\ tIn.dna = BigInt(0, 0)
    /\ Len(BigIntToString(tIn.dna)) = 1
    /\ Traits(tOut) = <<1, 1, 1, 0, 0, 0>>

\* C15: for every name, empty or padded with white space included, and
\* every id and dna, zombieName is the name as passed and zombieDescription
\* is "A Level 1 CryptoZombie".
C15_NameVerbatim ==
    Called =>
      /\ tOut.zombieName = tIn.name
      /\ tOut.zombieDescription = "A Level 1 CryptoZombie"

C15_Witness ==
    /\ Called
    /\ tIn.name = <<" ", "R", "e", "x", " ">>
    /\ tOut.zombieName = <<" ", "R", "e", "x", " ">>
    /\ tOut.zombieDescription = "A Level 1 CryptoZombie"

(***************************************************************************)
(* The claims about createRandomZombie and getZombie (under Spec)          *)
(***************************************************************************)

\* The collaborator calls of an invocation, by name.
Fns(c) == [n \in 1..Len(c.trace) |-> c.trace[n].fn]

\* The hashes of the transactions broadcast so far.
Broadcast ==
    {tx.hash : tx \in pending} \cup {logs[n].tx : n \in 1..Len(logs)}

SimulationReverted(c) ==
    c.thrown # <<>> /\ c.thrown[1].by = "simulateContract"

\* C4: when the simulation of createRandomZombie(name) reverts, the call
\* fails with the simulation's error, writeContract is never invoked for
\* it and no transaction of it is broadcast.
C4_RevertNeverSubmits ==
    \A i \in 1..Len(calls) :
      SimulationReverted(calls[i]) =>
        /\ calls[i].pc = "threw"
        /\ calls[i].error = <<calls[i].thrown[1].error>>
        /\ \A n \in 1..Len(calls[i].trace) : calls[i].trace[n].fn # "writeContract"
        /\ calls[i].hash = <<>>
        /\ i \notin Broadcast

C4_Witness ==
    \E i \in 1..Len(calls) :
      /\ SimulationReverted(calls[i])
      /\ calls[i].pc = "threw"
      /\ \E j \in 1..Len(calls) : calls[j].pc = "returned"

\* C5: a createRandomZombie that returns has requested the account, then
\* simulated with that account, then submitted the simulated request, in
\* this order and nothing else; and it returns the hash in the step in
\* which the submission returns, its transaction still pending.
C5_OrderAndNoWait ==
    [][ \A i \in 1..Len(calls) :
          (calls[i].pc # "returned" /\ calls'[i].pc = "returned") =>
            /\ Fns(calls'[i]) = <<"requestAddresses", "simulateContract", "writeContract">>
            /\ calls[i].pc = "writeContract"
            /\ calls'[i].account # <<>>
            /\ calls'[i].trace[2].arg[1].account = calls'[i].account
            /\ calls'[i].trace[2].arg[1].args = <<calls'[i].name>>
            /\ calls'[i].trace[3].arg = calls'[i].request
            /\ calls'[i].request = calls'[i].trace[2].arg
            /\ calls'[i].hash = <<i>>
            /\ \E tx \in pending' : tx.hash = i
            /\ \A n \in 1..Len(logs') : logs'[n].tx # i ]_vars

C5_Witness ==
    \E i \in 1..Len(calls) :
      /\ calls[i].pc = "returned"
      /\ \E tx \in pending : tx.hash = i

AtMostOnce(trace, fn) ==
    Cardinality({n \in 1..Len(trace) : trace[n].fn = fn}) <= 1

\* C10: when a collaborator call fails inside createRandomZombie or
\* getZombie, the operation fails with the very error the collaborator
\* rejected with, and no collaborator call is made twice by one invocation.
C10_SameErrorNoRetry ==
    /\ \A i \in 1..Len(calls) :
         /\ calls[i].thrown # <<>> =>
              calls[i].pc = "threw" /\ calls[i].error = <<calls[i].thrown[1].error>>
         /\ calls[i].pc = "threw" => calls[i].thrown # <<>>
         /\ \A fn \in {"requestAddresses", "simulateContract", "writeContract"} :
              AtMostOnce(calls[i].trace, fn)
    /\ \A j \in 1..Len(reads) :
         /\ reads[j].thrown # <<>> =>
              reads[j].pc = "threw" /\ reads[j].error = <<reads[j].thrown[1].error>>
         /\ reads[j].pc = "threw" => reads[j].thrown # <<>>
         /\ AtMostOnce(reads[j].trace, "readContract")

C10_Witness ==
    /\ \E i \in 1..Len(calls) :
         /\ calls[i].pc = "threw"
         /\ calls[i].thrown[1].by = "writeContract"
         /\ calls[i].error = <<"insufficient funds">>
    /\ \E i \in 1..Len(calls) :
         calls[i].pc = "threw" /\ calls[i].thrown[1].by = "requestAddresses"
    /\ \E j \in 1..Len(reads) :
         reads[j].pc = "threw" /\ reads[j].error = <<"HTTP request failed">>

\* C11: getZombie(id) makes exactly one call, the read-only query
\* zombies(id): it asks the wallet for nothing, simulates and submits
\* nothing, and the steps of a getZombie, whether it returns or fails,
\* leave the contract's zombies, its logs, the pending transactions and
\* every subscription as they were.
C11_ReadOnlyQuery ==
    [][ /\ \A j \in 1..Len(reads') :
             /\ Fns(reads'[j]) = <<"readContract">>
             /\ reads'[j].trace[1].arg =
                  <<[functionName |-> "zombies", args |-> <<reads'[j].id>>]>>
        /\ reads' # reads =>
             UNCHANGED <<wallet, calls, pending, zombies, logs, subs>> ]_vars

C11_Witness ==
    /\ \E j \in 1..Len(reads) : reads[j].pc = "returned"
    /\ Len(zombies) > 0
    /\ pending # {}
    /\ \E k \in 1..Len(subs) : subs[k].state = "active" /\ Len(subs[k].handled) > 0

\* The wallet requests of an invocation.
WalletRequests(trace) == {n \in 1..Len(trace) : trace[n].fn = "requestAddresses"}

\* C16: every createRandomZombie makes its own wallet request, before
\* simulating, and simulates with the account that request returned (the
\* account the wallet has selected when it answers), so that a change of
\* account between two invocations shows in the second; getZombie and
\* watchNewZombieEvents make no wallet request.
C16_AccountRequestedPerCall ==
    [][ /\ \A i \in 1..Len(calls') :
             /\ WalletRequests(calls'[i].trace) = {1}
             /\ \A n \in 1..Len(calls'[i].trace) :
                  calls'[i].trace[n].fn = "simulateContract" =>
                    n = 2 /\ calls'[i].trace[n].arg[1].account = calls'[i].account
        /\ \A i \in 1..Len(calls) :
             (calls[i].pc = "requestAddresses" /\ calls'[i].pc = "simulateContract") =>
               calls'[i].account = <<wallet>>
        /\ \A j \in 1..Len(reads') : WalletRequests(reads'[j].trace) = {}
        /\ (reads' # reads \/ subs' # subs) => calls' = calls ]_vars

C16_Witness ==
    /\ Len(calls) = 2
    /\ calls[1].account = <<"0xA">>
    /\ calls[1].pc = "returned"
    /\ calls[2].account = <<"0xB">>
    /\ calls[2].trace[2].arg[1].account = <<"0xB">>
    /\ Len(reads) > 0
    /\ Len(subs) > 0

(***************************************************************************)
(* The claim about unvalidated names (under SpecNames)                     *)
(***************************************************************************)

WalletFailed(c) == c.thrown # <<>> /\ c.thrown[1].by = "requestAddresses"

\* C17: createRandomZombie validates nothing: for every name, the empty
\* one, one of white space only and one of more than 32 characters
\* included, once the wallet has answered it simulates with that very
\* name as the only argument, and it fails only when the wallet, the
\* simulation or the submission fails.
C17_NoValidation ==
    \A i \in 1..Len(calls) :
      /\ (calls[i].pc # "requestAddresses" /\ ~WalletFailed(calls[i])) =>
            /\ Len(calls[i].trace) >= 2
            /\ calls[i].trace[2].fn = "simulateContract"
            /\ calls[i].trace[2].arg[1].args = <<calls[i].name>>
      /\ calls[i].pc = "threw" =>
            /\ calls[i].thrown # <<>>
            /\ calls[i].thrown[1].by \in
                  {"requestAddresses", "simulateContract", "writeContract"}

C17_Witness ==
    /\ Len(calls) = 2
    /\ calls[1].name = LongName
    /\ calls[1].pc = "returned"
    /\ Len(calls[2].name) = 0
    /\ calls[2].pc = "writeContract"
    /\ calls[2].trace[2].arg[1].args = << <<>> >>

(***************************************************************************)
(* The claims about the contract (under Spec)                              *)
(***************************************************************************)

\* The invocations whose transaction was broadcast.
Submitted == {i \in 1..Len(calls) : calls[i].pc = "returned"}

\* C18: every createRandomZombie transaction included in a block emits
\* exactly one NewZombie event, carrying the name that was submitted: on a
\* fresh contract there are as many events as included transactions, no
\* two of one transaction, the n-th with the name of the n-th included.
C18_OneEventPerCreation ==
    /\ Len(logs) + Cardinality(pending) = Cardinality(Submitted)
    /\ \A n, m \in 1..Len(logs) : logs[n].tx = logs[m].tx => n = m
    /\ \A n \in 1..Len(logs) :
         /\ logs[n].tx \in Submitted
         /\ logs[n].name = calls[logs[n].tx].request[1].args[1]

C18_Witness ==
    /\ Len(logs) = 2
    /\ logs[1].tx = 2
    /\ logs[2].tx = 1
    /\ logs[1].name = <<>>
    /\ logs[2].name = <<"R", "e", "x">>

\* C19: on a fresh contract the n-th creation (counting from 0) emits
\* NewZombie with zombieId = n: the ids are unique, without gaps and
\* increasing in event order.
C19_SequentialIds ==
    \A n \in 1..Len(logs) : logs[n].zombieId = n - 1

C19_Witness ==
    /\ Len(logs) = 2
    /\ logs[1].zombieId = 0
    /\ logs[2].zombieId = 1
    /\ pending = {}

\* C20: after the creation that emitted NewZombie(i, name, dna), zombies(i)
\* holds that name and dna, getZombie(i) returns them, and a later
\* creation leaves the record at i as it was.
C20_StoredAsEmitted ==
    [][ /\ Len(zombies') >= Len(zombies)
        /\ \A n \in 1..Len(zombies) : zombies'[n] = zombies[n]
        /\ \A n \in 1..Len(logs') :
             /\ logs'[n].zombieId < Len(zombies')
             /\ zombies'[logs'[n].zombieId + 1] =
                  [name |-> logs'[n].name, dna |-> logs'[n].dna]
        /\ \A j \in 1..Len(reads') :
             reads'[j].pc = "returned" =>
               \E n \in 1..Len(logs') :
                 /\ logs'[n].zombieId = reads'[j].id
                 /\ reads'[j].result =
                      <<[name |-> logs'[n].name, dna |-> logs'[n].dna]>> ]_vars

C20_Witness ==
    /\ Len(zombies) = 2
    /\ zombies[1] # zombies[2]
    /\ \E j \in 1..Len(reads) :
         /\ reads[j].pc = "returned"
         /\ reads[j].result = <<zombies[reads[j].id + 1]>>

(***************************************************************************)
(* The claims about ZombieApp.createZombie (under SpecCreate)              *)
(***************************************************************************)

\* A name that is empty or of white space only.
Blank(name) == \A i \in 1..Len(name) : name[i] = " "

\* C26: createZombie never fails: for a name that passes the checks it
\* resolves to true exactly when the gateway's createRandomZombie
\* succeeded and to false for every value the gateway throws, whatever its
\* shape, and the loading indicator is hidden again in both outcomes.
C26_NeverPropagates ==
    \A n \in 1..Len(app.creates) :
      app.creates[n].call # 0 =>
        /\ app.creates[n].pc # "threw"
        /\ app.creates[n].pc = "returned" =>
             /\ app.creates[n].hidden
             /\ calls[app.creates[n].call].pc = "returned"
                  => app.creates[n].result = <<TRUE>>
             /\ calls[app.creates[n].call].pc = "threw"
                  => app.creates[n].result = <<FALSE>>

\* C27: createZombie refuses, before any gateway call, every name that is
\* empty or of white space only and every name of more than 32
\* characters: it resolves to false and nothing is requested, simulated
\* or submitted; every other name goes unchanged to createRandomZombie.
C27_ClientSideValidation ==
    /\ \A n \in 1..Len(app.creates) :
         IF Blank(app.creates[n].name) \/ Len(app.creates[n].name) > 32
         THEN /\ app.creates[n].pc = "returned"
              /\ app.creates[n].result = <<FALSE>>
              /\ app.creates[n].call = 0
         ELSE /\ app.creates[n].call \in 1..Len(calls)
              /\ calls[app.creates[n].call].name = app.creates[n].name
    /\ Len(calls) = Cardinality({n \in 1..Len(app.creates) : app.creates[n].call # 0})

C27_Witness ==
    /\ Len(app.creates) = 2
    /\ app.creates[1].name = LongName
    /\ app.creates[1].result = <<FALSE>>
    /\ app.creates[2].name = <<" ", "R", "e", "x", " ">>
    /\ Len(calls) = 1
    /\ calls[1].name = <<" ", "R", "e", "x", " ">>
    /\ calls[1].pc = "returned"

(***************************************************************************)
(* The claims about watchNewZombieEvents (under SpecWatch and SpecAll)     *)
(***************************************************************************)

\* The event a decoded log carries.
EventOf(ev) == [zombieId |-> <<ev.zombieId>>, name |-> <<ev.name>>, dna |-> <<ev.dna>>]

NoCallbackThrew(s) == \A n \in 1..Len(s.handled) : ~s.handled[n].threw

\* C6: for every batch the node reports to a subscription, the callback
\* is invoked exactly once per log, in log order, with the zombieId, name
\* and dna of that log: nothing is dropped or reordered (stated for
\* callbacks that return normally).
C6_EveryLogDeliveredInOrder ==
    \A k \in 1..Len(subs) :
      NoCallbackThrew(subs[k]) =>
        /\ Len(subs[k].handled) = subs[k].cursor - subs[k].start
        /\ \A n \in 1..Len(subs[k].handled) :
             /\ subs[k].handled[n].log.logIndex = subs[k].start + n
             /\ subs[k].handled[n].did = "callback"
             /\ subs[k].handled[n].event = <<EventOf(logs[subs[k].start + n])>>

\* C7: a subscription is active from watchNewZombieEvents on; only an
\* invocation of its handle stops it; once stopped it stays stopped, and
\* the callback is not invoked for any log emitted after the stop.
C7_StoppedOnlyByHandleForever ==
    [][ /\ Len(subs') > Len(subs) => subs'[Len(subs')].state = "active"
        /\ \A k \in 1..Len(subs) :
             /\ subs[k].state = "stopped" => subs'[k].state = "stopped"
             /\ (subs[k].state = "active" /\ subs'[k].state = "stopped") =>
                   subs'[k].unwatched > subs[k].unwatched
             /\ subs'[k].unwatched > 0 => subs'[k].state = "stopped"
             /\ subs'[k].state = "stopped" =>
                   \A n \in 1..Len(subs'[k].handled) :
                      subs'[k].handled[n].did = "callback" =>
                        subs'[k].handled[n].log.logIndex <= subs'[k].stoppedAt ]_vars

C7_Witness ==
    \E k \in 1..Len(subs) :
      /\ subs[k].state = "stopped"
      /\ Len(logs) > subs[k].stoppedAt
      /\ \E n \in 1..Len(subs[k].handled) : subs[k].handled[n].threw
      /\ \E i \in 1..Len(calls) : calls[i].pc = "returned"
      /\ \E j \in 1..Len(reads) : reads[j].pc = "returned"

\* C8: invoking the unsubscribe handle of a stopped subscription changes
\* nothing and raises no error.
C8_SecondUnwatchNoOp ==
    [][ \A k \in 1..Len(subs) :
          /\ ~subs'[k].raised
          /\ (subs[k].state = "stopped" /\ subs'[k].unwatched > subs[k].unwatched) =>
                subs'[k] = [subs[k] EXCEPT !.unwatched = @ + 1] ]_vars

C8_Witness ==
    \E k \in 1..Len(subs) :
      /\ subs[k].unwatched >= 2
      /\ subs[k].state = "stopped"
      /\ ~subs[k].raised

Malformed(log) ==
    \/ log.args = <<>>
    \/ log.args[1].zombieId = <<>>
    \/ log.args[1].name = <<>>
    \/ log.args[1].dna = <<>>

\* C9: a reported log whose args are absent, or lack zombieId, name or
\* dna, is reported as a decode failure: it is neither skipped nor handed
\* to the callback; and the subscription stays active.
C9_MalformedLogReported ==
    \A k \in 1..Len(subs) :
      \A n \in 1..Len(subs[k].handled) :
        Malformed(subs[k].handled[n].log) =>
          /\ subs[k].handled[n].did = "decodeFailure"
          /\ subs[k].unwatched = 0 => subs[k].state = "active"

(***************************************************************************)
(* Claims about the ZombieApp's cache, loader and destroy                  *)
(***************************************************************************)

\* The getZombie invocations of loadExistingZombies
LoaderGets == {n \in 1..Len(app.gets) : app.gets[n].by = "loader"}

\* The n-th getZombie of the app has resolved to null.
ReturnedNull(n) == app.gets[n].pc = "returned" /\ app.gets[n].value = <<>>

\* C23: loadExistingZombies asks for the ids in ascending order, for none
\* from 10 on, and for none greater than the first id whose read failed.
C23_LoaderStopsAtFirstFailure ==
    \A n \in LoaderGets :
      /\ app.gets[n].id < LoadLimit
      /\ \A m \in LoaderGets :
           m < n => /\ app.gets[m].id < app.gets[n].id
                    /\ ~ReturnedNull(m)

\* C25: when the gateway read fails inside the app's getZombie, the call
\* resolves to null and the cache is left as it was; and a getZombie for
\* an id that failed before and is not cached issues a new gateway read.
C25_FailedReadNotCached ==
    [][ /\ \A n \in 1..Len(app.gets) :
             ( /\ app.gets[n].pc = "getZombie"
               /\ app'.gets[n].pc # "getZombie"
               /\ reads[app.gets[n].read].pc = "threw" )
             => /\ app'.gets[n].pc = "returned"
                /\ app'.gets[n].value = <<>>
                /\ app'.zombies = app.zombies
        /\ ( /\ Len(app'.gets) = Len(app.gets) + 1
             /\ \E m \in 1..Len(app.gets) :
                  /\ ReturnedNull(m)
                  /\ app.gets[m].id = app'.gets[Len(app'.gets)].id
             /\ app'.gets[Len(app'.gets)].id \notin DOMAIN app.zombies )
           => /\ Len(reads') = Len(reads) + 1
              /\ reads'[Len(reads')].id = app'.gets[Len(app'.gets)].id
              /\ reads'[Len(reads')].pc = "readContract"
              /\ app'.gets[Len(app'.gets)].read = Len(reads')
      ]_vars

\* A getZombie resolved to null while another id was cached, and a later
\* getZombie for the same id has issued its own read.
C25_Witness ==
    \E m, n \in 1..Len(app.gets) :
      /\ m < n
      /\ ReturnedNull(m)
      /\ app.gets[n].id = app.gets[m].id
      /\ app.gets[n].read > app.gets[m].read
      /\ reads[app.gets[n].read].id = app.gets[m].id
      /\ app.gets[m].id \notin DOMAIN app.zombies
      /\ DOMAIN app.zombies # {}

\* The logs for id that the node has reported to the app's subscription
ReportedToApp(id) ==
    IF app.sub = <<>> THEN {}
    ELSE {n \in 1..Len(subs[app.sub[1]].handled) :
            logs[subs[app.sub[1]].handled[n].log.logIndex].zombieId = id}

\* C24: a getZombie(id) called after a getZombie(id) has returned a zombie,
\* or after an event for id has been reported to the app's subscription,
\* and before any later destroy(), returns the cached entry and issues no
\* gateway read; and the name and dna of a cached entry are those of the
\* contract's zombie of that id.
C24_CachedById ==
    [][ /\ ( /\ Len(app'.gets) = Len(app.gets) + 1
             /\ LET id == app'.gets[Len(app'.gets)].id IN
                \/ \E m \in 1..Len(app.gets) :
                     /\ app.gets[m].id = id
                     /\ app.gets[m].pc = "returned"
                     /\ app.gets[m].value # <<>>
                     /\ app.gets[m].epoch = app.destroyed
                \/ /\ app.destroyed = 0
                   /\ ReportedToApp(id) # {} )
           => /\ reads' = reads
              /\ app'.gets[Len(app'.gets)].pc = "returned"
              /\ app'.gets[Len(app'.gets)].value
                   = <<app.zombies[app'.gets[Len(app'.gets)].id]>>
        /\ \A id \in DOMAIN app'.zombies :
             /\ id < Len(zombies')
             /\ app'.zombies[id].name = zombies'[id + 1].name
             /\ app'.zombies[id].dna = zombies'[id + 1].dna
      ]_vars

BelowTenToSixteen(dna) ==
    /\ dna.hi \in 0..(10^8 - 1)
    /\ dna.lo \in 0..(10^8 - 1)

\* C21: the dna of every NewZombie event and of every stored zombie is at
\* least 0 and below 10^16, and every dna a subscription hands to its
\* callback has at most 16 decimal digits.
C21_DnaBelowTenToSixteen ==
    /\ \A i \in 1..Len(logs) : BelowTenToSixteen(logs[i].dna)
    /\ \A i \in 1..Len(zombies) : BelowTenToSixteen(zombies[i].dna)
    /\ \A k \in 1..Len(subs) :
         \A n \in 1..Len(subs[k].handled) :
           ( /\ subs[k].handled[n].did = "callback"
             /\ subs[k].handled[n].event[1].dna # <<>> )
           => /\ BelowTenToSixteen(subs[k].handled[n].event[1].dna[1])
              /\ Len(BigIntToString(subs[k].handled[n].event[1].dna[1])) <= 16
              /\ Len(DnaStr(subs[k].handled[n].event[1].dna[1])) = 16

\* A zombie of this client with a dna of 16 digits was created, and its
\* event handed to a callback.
C21_Witness ==
    \E k \in 1..Len(subs) :
      \E n \in 1..Len(subs[k].handled) :
        /\ subs[k].handled[n].did = "callback"
        /\ subs[k].handled[n].event[1].dna # <<>>
        /\ Len(BigIntToString(subs[k].handled[n].event[1].dna[1])) = 16
        /\ logs[subs[k].handled[n].log.logIndex].tx > 0
        /\ zombies[subs[k].handled[n].event[1].zombieId[1] + 1].dna
             = subs[k].handled[n].event[1].dna[1]

(***************************************************************************)
(* Claims about the dashboard                                              *)
(***************************************************************************)

\* The events handed to the dashboard's callback so far, oldest first
DeliveredToDashboard ==
    IF dash.created
    THEN SelectSeq(subs[dash.sub].handled, LAMBDA h : h.did = "callback")
    ELSE <<>>

\* C29: totalZombies is the number of events delivered to the dashboard's
\* callback, and recentZombies holds the last min(10, total) of them,
\* newest first, so never more than 10.
C29_DashboardStats ==
    LET delivered == DeliveredToDashboard
        total     == Len(delivered)
    IN /\ dash.stats.totalZombies = total
       /\ Len(dash.stats.recentZombies) <= RecentLimit
       /\ Len(dash.stats.recentZombies) = Min(RecentLimit, total)
       /\ \A j \in 1..Len(dash.stats.recentZombies) :
            /\ ~DashboardCallbackThrows(delivered[total - j + 1].event[1])
            /\ dash.stats.recentZombies[j]
                 = RecentEntry(delivered[total - j + 1].event[1])

(***************************************************************************)
(* Claims about testEventListening                                         *)
(***************************************************************************)

\* The handle of the test's subscription has been invoked exactly once.
TestUnsubscribedOnce ==
    /\ test.started
    /\ subs[test.sub].unwatched = 1
    /\ subs[test.sub].state = "stopped"

\* The handle is never invoked twice; the catch block invokes it only on
\* a failed creation and then no timer exists; after a creation that
\* succeeded only the fired timer has invoked it.
TestHandleUse ==
    test.started =>
      /\ subs[test.sub].unwatched <= 1
      /\ subs[test.sub].unwatched = 1 => test.unwatchedBy \in {"catch", "timer"}
      /\ test.unwatchedBy = "catch"
           => calls[test.call].pc = "threw" /\ test.timer = "none"
      /\ test.unwatchedBy = "timer"
           => /\ calls[test.call].pc = "returned"
              /\ test.timer = "fired"
              /\ test.delay = TimerDelay
      /\ calls[test.call].pc = "threw" => test.timer = "none"
      /\ test.timer = "scheduled" => subs[test.sub].unwatched = 0

\* When testEventListening resumes on a failed creation the handle is
\* invoked in that step and no timer is scheduled; on a creation that
\* succeeded the timer is scheduled and the handle is not invoked.
TestResumeStep ==
    (test.pc = "createRandomZombie" /\ test'.pc = "returned")
    => IF calls[test.call].pc = "threw"
       THEN subs'[test.sub].unwatched = 1 /\ test'.timer = "none"
       ELSE subs' = subs /\ test'.timer = "scheduled" /\ test'.delay = TimerDelay

\* C30, as stated: every subscription opened by testEventListening is
\* eventually unsubscribed, exactly once, at once by the catch block when
\* the creation fails and by the 30-second timer alone when it succeeds.
C30_EventuallyUnsubscribed ==
    /\ []TestHandleUse
    /\ [][TestResumeStep]_vars
    /\ test.started ~> TestUnsubscribedOnce

\* C30, amended: once the creation of the test zombie has settled, the
\* subscription is eventually unsubscribed, exactly once, at once by the
\* catch block when the creation failed and by the 30-second timer alone
\* when it succeeded.
C30_UnsubscribedOnceSettled ==
    /\ []TestHandleUse
    /\ [][TestResumeStep]_vars
    /\ (test.started /\ calls[test.call].pc \in {"returned", "threw"})
         ~> TestUnsubscribedOnce

\* The creation succeeded, its event was reported to the test's callback,
\* and the timer has fired and invoked the handle.
C30_Witness ==
    /\ TestUnsubscribedOnce
    /\ test.unwatchedBy = "timer"
    /\ calls[test.call].pc = "returned"
    /\ \E n \in 1..Len(subs[test.sub].handled) :
         subs[test.sub].handled[n].did = "callback"

====
